---- MODULE Spec2Model ----
(***************************************************************************)
(* Conversation cache / context assembly of first_chatbot_back.            *)
(*                                                                         *)
(*   RedisService  (src/unnamed/part_001)    : set/get/del, setJson/getJson *)
(*   OpenaiService (src/src/openai/openai.service.ts)                      *)
(*       cacheUserName, cacheConversationContext, getConversationHistory,  *)
(*       addToConversationHistory, clearConversationHistory, createChat,   *)
(*       selectTopKDocuments, cosineSimilarity                             *)
(*   OpenaiController (src/unnamed/part_000) : getHistory, clearHistory     *)
(*                                                                         *)
(* Every `await` of the service is a suspension point, so every cache      *)
(* round trip and every external call is one action; requests interleave   *)
(* between them.  Time is in seconds.                                      *)
(***************************************************************************)
EXTENDS Integers, Sequences, FiniteSets, TLC

VARIABLES
    store,      \* the Redis keyspace: key -> [val, exp]
    now,        \* the clock, in seconds
    ticks,      \* how many times the clock has advanced (bounded)
    starts,     \* how many createChat requests have arrived (bounded)
    req,        \* createChat invocations: request id -> its locals and position
    view,       \* what the controller's last GET history/:userName returned
    lastAppend, \* history: user -> time of the last append write since a clear
    lastWriter, \* history: user -> <<request, role>> of the last write, or a clear
    cacheGot,   \* RedisService.get: the last value returned
    written,    \* RedisService.set: key -> the last set's value, time and ttl
    seqLog,     \* sequential appends: user -> every turn appended, in order
    reads,      \* history: user -> getHistory calls since the last append or clear: 0, 1, 2 or more
    ranked,     \* selectTopKDocuments: the last call's arguments and what it returned
    snapshots   \* cacheConversationContext: <<userName, timestamp>> -> the last data cached

vars == <<store, now, ticks, starts, req, view, lastAppend, lastWriter, cacheGot, written, seqLog,
          reads, ranked, snapshots>>

-----------------------------------------------------------------------------
(* Program constants *)

ProfileTTL == 86400
SnapshotTTL == 604800
HistoryTTL == 2592000
HistoryLimit == 50
DefaultTopK == 3

(* Bounds of the model *)

MaxStarts == 2
MaxTicks == 2
MaxSeqAppends == 52
MaxCacheNow == 3
MaxDocs == 3
MaxUserChats == 1
MaxTopK == 4

-----------------------------------------------------------------------------
(* Values *)

Undefined == "undefined"
NoExpiry == -1
NoResponse == "No response"

UserNames == {"Ann"}
\* Request r sends the prompt PromptOf(r): concurrent requests send different ones.
PromptOf(r) == IF r % 2 = 1 THEN "Hi" ELSE "Yo"
Timestamps == {"T1"}
Replies == {"", "Hello"}
Documents == <<"d1", "d2">>
\* Two requests can be in flight at once; a finished one's slot takes the next request.
Reqs == {1, 2}

Max(a, b) == IF a >= b THEN a ELSE b
Min(a, b) == IF a <= b THEN a ELSE b

\* An optional number: omitted (undefined), or given.
Omitted == [given |-> FALSE]
Given(n) == [given |-> TRUE, value |-> n]

\* No selectTopKDocuments call has returned yet.
NotRanked == [state |-> "none"]

\* JavaScript truthiness of an optional string: undefined and "" are falsy.
Truthy(s) == s # Undefined /\ s # ""

\* new Date() and its JSON form (JSON.stringify writes a Date as toISOString()).
ToISOString(t) == <<"iso", t>>

-----------------------------------------------------------------------------
(* RedisService *)

\* A key is readable while it is stored and its expiry, if any, lies ahead.
Live(st, key, t) ==
    /\ key \in DOMAIN st
    /\ (st[key].exp = NoExpiry \/ t < st[key].exp)

Put(st, key, entry) ==
    [k \in DOMAIN st \cup {key} |-> IF k = key THEN entry ELSE st[k]]

\* A set that never passes the ttl on.
SetNoTtlCheck(st, key, value, ttl, t) ==
    Put(st, key, [val |-> value, exp |-> NoExpiry])

\* set(key, value, ttl?): SETEX when ttl is truthy, plain SET (no expiry) otherwise.
Set(st, key, value, ttl, t) ==
    IF ttl.given /\ ttl.value # 0
    THEN Put(st, key, [val |-> value, exp |-> t + ttl.value])
    ELSE Put(st, key, [val |-> value, exp |-> NoExpiry])

\* A del that leaves the key in place.
DelKeepsKey(st, key) == st

\* get(key): the stored string, or null.
Get(st, key, t) ==
    IF Live(st, key, t) THEN [found |-> TRUE, val |-> st[key].val]
    ELSE [found |-> FALSE]

Del(st, key) == [k \in DOMAIN st \ {key} |-> st[k]]

JSONstringify(value) == [json |-> value]
JSONparse(text) == text.json

SetJson(st, key, value, ttl, t) == Set(st, key, JSONstringify(value), ttl, t)

\* getJson(key): null when get returns a falsy value, the parsed value otherwise.
GetJson(st, key, t) ==
    LET value == Get(st, key, t)
    IN  IF ~value.found THEN [found |-> FALSE]
        ELSE [found |-> TRUE, val |-> JSONparse(value.val)]

\* Redis drops a key once its expiry is reached.
Purge(st, t) == [k \in {x \in DOMAIN st : Live(st, x, t)} |-> st[k]]

-----------------------------------------------------------------------------
(* OpenaiService: keys and the history store *)

\* A string as the sequence of its pieces: a ':' inside a string is a piece of its own,
\* so that concatenating strings is concatenating their pieces. `${undefined}` is 'undefined'.
Chars(s) ==
    CASE s = "Ann:T" -> <<"Ann", ":", "T">>
      [] s = "T:1" -> <<"T", ":", "1">>
      [] OTHER -> <<s>>

\* `user:${userName}:profile`
ProfileKey(userName) == <<"user", ":">> \o Chars(userName) \o <<":", "profile">>
\* `conversation:${userName}:${timestamp}`
ConversationKey(userName, timestamp) ==
    <<"conversation", ":">> \o Chars(userName) \o <<":">> \o Chars(timestamp)
\* `conversation_history:${userName}`
HistoryKey(userName) == <<"conversation", "_history", ":">> \o Chars(userName)

\* getConversationHistory: history || []
GetConversationHistory(st, userName, t) ==
    LET history == GetJson(st, HistoryKey(userName), t)
    IN  IF history.found THEN history.val ELSE <<>>

Turn(role, content, t) == [role |-> role, content |-> content, timestamp |-> ToISOString(t)]

\* currentHistory.slice(0, 50)
SliceFirst(h) == SubSeq(h, 1, Min(Len(h), HistoryLimit))

\* currentHistory.slice(-50)
SliceLast(h) == SubSeq(h, Max(Len(h) - HistoryLimit, 0) + 1, Len(h))

\* A history that takes the new turn at its front.
TrimmedHistoryUnshift(currentHistory, role, content, t) ==
    SliceLast(<<Turn(role, content, t)>> \o currentHistory)

\* addToConversationHistory after its read: push, then trim.
TrimmedHistory(currentHistory, role, content, t) ==
    SliceLast(Append(currentHistory, Turn(role, content, t)))

-----------------------------------------------------------------------------
(* OpenaiService: retrieval ranker *)

\* What the embeddings endpoint may answer for [query, d1, d2]: integer vectors.
Embeddings ==
    { <<<<1, 0>>, <<0, 1>>, <<1, 0>>>> }

Sign(x) == IF x > 0 THEN 1 ELSE IF x < 0 THEN -1 ELSE 0

RECURSIVE Dot(_, _, _)
Dot(a, b, i) == IF i > Len(a) THEN 0 ELSE a[i] * b[i] + Dot(a, b, i + 1)

\* cosineSimilarity(a, b) = dot / (sqrt(normA) * sqrt(normB)), 0 on a zero norm.
\* The score is kept exactly, as sgn * num / den of its square.
CosineSimilarity(a, b) ==
    LET dot == Dot(a, b, 1)
        normA == Dot(a, a, 1)
        normB == Dot(b, b, 1)
    IN  IF normA = 0 \/ normB = 0 THEN [sgn |-> 0, num |-> 0, den |-> 1]
        ELSE [sgn |-> Sign(dot), num |-> dot * dot, den |-> normA * normB]

\* A comparison the other way round: a.score - b.score > 0.
ScoreSmaller(b, a) == b.sgn * b.num * a.den < a.sgn * a.num * b.den

\* b.score - a.score > 0
ScoreGreater(b, a) == b.sgn * b.num * a.den > a.sgn * a.num * b.den

\* Array.prototype.sort with (a, b) => b.score - a.score: stable, descending.
RECURSIVE InsertScored(_, _)
InsertScored(sorted, item) ==
    IF sorted = <<>> THEN <<item>>
    ELSE IF ScoreGreater(item.score, sorted[Len(sorted)].score)
         THEN Append(InsertScored(SubSeq(sorted, 1, Len(sorted) - 1), item), sorted[Len(sorted)])
         ELSE Append(sorted, item)

RECURSIVE SortScored(_, _)
SortScored(scored, n) ==
    IF n = 0 THEN <<>> ELSE InsertScored(SortScored(scored, n - 1), scored[n])

\* A slice that ignores its end.
SliceToEnd(s, end) == s

\* array.slice(0, end): a negative end counts from the end of the array.
SliceTo(s, end) ==
    SubSeq(s, 1, IF end < 0 THEN Max(Len(s) + end, 0) ELSE Min(end, Len(s)))

\* selectTopKDocuments, given the embeddings of [query] ++ documents.
SelectTopKDocuments(documents, topK, embeddings) ==
    LET queryEmbedding == embeddings[1]
        docEmbeddings == SubSeq(embeddings, 2, Len(embeddings))
        scored == [i \in 1 .. Len(docEmbeddings) |->
                      [index |-> i, score |-> CosineSimilarity(queryEmbedding, docEmbeddings[i])]]
        sorted == SortScored(scored, Len(scored))
        top == SliceTo(sorted, topK)
    IN  [i \in 1 .. Len(top) |-> documents[top[i].index]]

\* The synthetic system message: the preamble and the numbered, joined documents.
ContextMessage(selectedDocs) ==
    [role |-> "system",
     content |-> <<"Context:", [i \in 1 .. Len(selectedDocs) |-> <<i, selectedDocs[i]>>]>>]

-----------------------------------------------------------------------------
(* OpenaiService.createChat: one invocation per request id *)

IdleReq ==
    [pc |-> "idle", prompt |-> Undefined, userName |-> Undefined, timestamp |-> Undefined,
     useRag |-> FALSE, documents |-> <<>>, topK |-> Omitted,
     messages |-> <<>>, trimmedHistory |-> <<>>, responseContent |-> Undefined,
     reply |-> Undefined, sent |-> <<>>, loaded |-> <<>>, priorUser |-> <<>>,
     result |-> Undefined, failedAt |-> Undefined, log |-> <<>>, historyWrites |-> 0,
     alone |-> TRUE]

\* An order that appends both turns before the completion call.
StepsPersistFirst(q) ==
    (IF Truthy(q.userName) THEN <<"cacheUser">> ELSE <<>>)
    \o (IF q.useRag /\ Len(q.documents) > 0 THEN <<"rag">> ELSE <<>>)
    \o (IF Truthy(q.userName)
        THEN <<"load", "userRead", "userWrite", "assistantRead", "assistantWrite">>
        ELSE <<>>)
    \o <<"complete">>
    \o (IF Truthy(q.timestamp) /\ Truthy(q.userName) THEN <<"snapshot">> ELSE <<>>)

\* An order that caches the snapshot whenever a timestamp is given.
StepsSnapshotAnyUser(q) ==
    (IF Truthy(q.userName) THEN <<"cacheUser">> ELSE <<>>)
    \o (IF q.useRag /\ Len(q.documents) > 0 THEN <<"rag">> ELSE <<>>)
    \o (IF Truthy(q.userName) THEN <<"load">> ELSE <<>>)
    \o <<"complete">>
    \o (IF Truthy(q.userName)
        THEN <<"userRead", "userWrite", "assistantRead", "assistantWrite">>
        ELSE <<>>)
    \o (IF Truthy(q.timestamp) THEN <<"snapshot">> ELSE <<>>)

\* createChat's awaits, in program order, for the request's arguments: line 131-209.
Steps(q) ==
    (IF Truthy(q.userName) THEN <<"cacheUser">> ELSE <<>>)
    \o (IF q.useRag /\ Len(q.documents) > 0 THEN <<"rag">> ELSE <<>>)
    \o (IF Truthy(q.userName) THEN <<"load">> ELSE <<>>)
    \o <<"complete">>
    \o (IF Truthy(q.userName)
        THEN <<"userRead", "userWrite", "assistantRead", "assistantWrite">>
        ELSE <<>>)
    \o (IF Truthy(q.timestamp) /\ Truthy(q.userName) THEN <<"snapshot">> ELSE <<>>)

\* The await that follows the one the request is at, or "done": the return of line 211.
NextPc(q) ==
    LET steps == Steps(q)
        i == CHOOSE k \in 1 .. Len(steps) : steps[k] = q.pc
    IN  IF i = Len(steps) THEN "done" ELSE steps[i + 1]

InFlight(q) == q.pc \notin {"idle", "done", "failed"}

\* A map that keeps every turn: history.map(msg => ({role, content})).
FilterMapAll(history) ==
    [i \in 1 .. Len(history) |-> [role |-> history[i].role, content |-> history[i].content]]

\* history.filter(msg => msg && msg.role && msg.content).map(msg => ({role, content}))
RECURSIVE FilterMap(_)
FilterMap(history) ==
    IF history = <<>> THEN <<>>
    ELSE LET msg == history[1]
             rest == FilterMap(Tail(history))
         IN  IF msg.role # "" /\ msg.content # ""
             THEN <<[role |-> msg.role, content |-> msg.content]>> \o rest
             ELSE rest

\* One await has resolved: the request moves on, or returns responseContent.
Advance(q) ==
    LET q1 == [q EXCEPT !.log = Append(q.log, q.pc)]
    IN  IF NextPc(q) = "done"
        THEN [q1 EXCEPT !.pc = "done", !.result = q.responseContent,
                        !.messages = <<>>, !.trimmedHistory = <<>>]
        ELSE [q1 EXCEPT !.pc = NextPc(q)]

Frame == UNCHANGED <<cacheGot, written, seqLog, ranked, snapshots>>

\* createChat is called with these arguments: line 100-133.
StartWith(r, prompt, userName, timestamp, useRag, topK) ==
    /\ req[r].pc \in {"idle", "done", "failed"}
    /\ starts < MaxStarts
    /\ starts' = starts + 1
    /\ LET q == [IdleReq EXCEPT !.prompt = prompt, !.userName = userName,
                                !.timestamp = timestamp, !.useRag = useRag,
                                !.documents = IF useRag THEN Documents ELSE <<>>,
                                !.topK = IF useRag THEN topK ELSE Omitted]
           sameUser(o) == o # r /\ InFlight(req[o]) /\ Truthy(userName)
                                /\ req[o].userName = userName
       IN  req' = [o \in Reqs |->
                     IF o = r
                     THEN [q EXCEPT !.pc = Steps(q)[1],
                                    !.alone = ~\E x \in Reqs : sameUser(x)]
                     ELSE IF sameUser(o) THEN [req[o] EXCEPT !.alone = FALSE]
                     ELSE req[o]]
    /\ UNCHANGED <<store, now, ticks, view, lastAppend, lastWriter, reads>>
    /\ Frame

\* A request arrives, with or without a user, a timestamp and RAG documents.
Start(r) ==
    \E prompt \in {PromptOf(r)}, userName \in UserNames \cup {Undefined},
       timestamp \in Timestamps \cup {Undefined}, useRag \in BOOLEAN,
       topK \in {Omitted} :
       StartWith(r, prompt, userName, timestamp, useRag, topK)

\* cacheUserName: line 18-22.
CacheUserName(r) ==
    LET q == req[r] IN
    /\ q.pc = "cacheUser"
    /\ store' = SetJson(store, ProfileKey(q.userName),
                        [name |-> q.userName, cachedAt |-> ToISOString(now)], Given(ProfileTTL), now)
    /\ req' = [req EXCEPT ![r] = Advance(q)]
    /\ UNCHANGED <<now, ticks, starts, view, lastAppend, lastWriter, reads>>
    /\ Frame

\* The RAG branch: line 142-162, with selectTopKDocuments and getEmbeddings.
RagSelect(r) ==
    LET q == req[r] IN
    /\ q.pc = "rag"
    /\ \E embeddings \in Embeddings :
          LET selectedDocs == SelectTopKDocuments(q.documents,
                                  IF q.topK.given THEN q.topK.value ELSE DefaultTopK,
                                  embeddings)
          IN  req' = [req EXCEPT ![r] =
                        Advance([q EXCEPT !.messages = <<ContextMessage(selectedDocs)>>])]
    /\ UNCHANGED <<store, now, ticks, starts, view, lastAppend, lastWriter, reads>>
    /\ Frame

\* A history branch that pushes the history after the RAG message.
HistoryLoadKeepsRag(r) ==
    LET q == req[r]
        history == GetConversationHistory(store, q.userName, now)
    IN
    /\ q.pc = "load"
    /\ req' = [req EXCEPT ![r] =
                 Advance([q EXCEPT !.messages = q.messages \o FilterMap(history),
                                   !.loaded = history])]
    /\ UNCHANGED <<store, now, ticks, starts, view, lastAppend, lastWriter, reads>>
    /\ Frame

\* The history branch: line 164-176. The assignment replaces messages.
HistoryLoad(r) ==
    LET q == req[r]
        history == GetConversationHistory(store, q.userName, now)
    IN
    /\ q.pc = "load"
    /\ req' = [req EXCEPT ![r] =
                 Advance([q EXCEPT !.messages = FilterMap(history), !.loaded = history])]
    /\ UNCHANGED <<store, now, ticks, starts, view, lastAppend, lastWriter, reads>>
    /\ Frame

\* The completion call: line 178-198. The prompt is pushed, the request posted, and
\* the answer's content read, `|| 'No response'`.
Complete(r) ==
    LET q == req[r] IN
    /\ q.pc = "complete"
    /\ \E content \in Replies :
          LET messages == Append(q.messages, [role |-> "user", content |-> q.prompt])
          IN  req' = [req EXCEPT ![r] =
                        Advance([q EXCEPT !.messages = messages, !.sent = messages,
                                          !.reply = content,
                                          !.responseContent =
                                              IF content # "" THEN content ELSE NoResponse])]
    /\ UNCHANGED <<store, now, ticks, starts, view, lastAppend, lastWriter, reads>>
    /\ Frame

\* addToConversationHistory up to its read: line 73-84. The turn is stamped and the
\* trimmed history computed here; the write is a second round trip.
AddToHistoryRead(r) ==
    LET q == req[r]
        role == IF q.pc = "userRead" THEN "user" ELSE "assistant"
        content == IF q.pc = "userRead" THEN q.prompt ELSE q.responseContent
        currentHistory == GetConversationHistory(store, q.userName, now)
    IN
    /\ q.pc \in {"userRead", "assistantRead"}
    /\ req' = [req EXCEPT ![r] =
                 Advance([q EXCEPT
                     !.trimmedHistory = TrimmedHistory(currentHistory, role, content, now),
                     !.priorUser = IF q.pc = "userRead" THEN currentHistory ELSE q.priorUser])]
    /\ UNCHANGED <<store, now, ticks, starts, view, lastAppend, lastWriter, reads>>
    /\ Frame

\* A write that appends to whatever is stored at the time of the write.
AddToHistoryWriteAtomic(r) ==
    LET q == req[r]
        turn == q.trimmedHistory[Len(q.trimmedHistory)]
        role == IF q.pc = "userWrite" THEN "user" ELSE "assistant"
    IN
    /\ q.pc \in {"userWrite", "assistantWrite"}
    /\ store' = SetJson(store, HistoryKey(q.userName),
                        SliceLast(Append(GetConversationHistory(store, q.userName, now), turn)),
                        Given(HistoryTTL), now)
    /\ lastAppend' = [lastAppend EXCEPT ![q.userName] = now]
    /\ lastWriter' = [lastWriter EXCEPT ![q.userName] = <<r, role>>]
    /\ req' = [req EXCEPT ![r] = Advance([q EXCEPT !.historyWrites = q.historyWrites + 1])]
    /\ reads' = [reads EXCEPT ![q.userName] = 0]
    /\ UNCHANGED <<now, ticks, starts, view>>
    /\ Frame

\* addToConversationHistory's write: line 86-88.
AddToHistoryWrite(r) ==
    LET q == req[r]
        role == IF q.pc = "userWrite" THEN "user" ELSE "assistant"
    IN
    /\ q.pc \in {"userWrite", "assistantWrite"}
    /\ store' = SetJson(store, HistoryKey(q.userName), q.trimmedHistory, Given(HistoryTTL), now)
    /\ lastAppend' = [lastAppend EXCEPT ![q.userName] = now]
    /\ lastWriter' = [lastWriter EXCEPT ![q.userName] = <<r, role>>]
    /\ req' = [req EXCEPT ![r] = Advance([q EXCEPT !.historyWrites = q.historyWrites + 1])]
    /\ reads' = [reads EXCEPT ![q.userName] = 0]
    /\ UNCHANGED <<now, ticks, starts, view>>
    /\ Frame

\* cacheConversationContext: line 35-51, and the return of line 211.
CacheConversationContext(r) ==
    LET q == req[r] IN
    /\ q.pc = "snapshot"
    /\ store' = SetJson(store, ConversationKey(q.userName, q.timestamp),
                        [timestamp |-> q.timestamp, prompt |-> q.prompt,
                         response |-> q.responseContent, createdAt |-> ToISOString(now)],
                        Given(SnapshotTTL), now)
    /\ req' = [req EXCEPT ![r] = Advance(q)]
    /\ UNCHANGED <<now, ticks, starts, view, lastAppend, lastWriter, reads>>
    /\ Frame

\* createChat rejects: its locals are gone, what it did stays on record.
Failed(q, text) ==
    [IdleReq EXCEPT !.pc = "failed", !.failedAt = q.pc, !.result = text,
                    !.prompt = q.prompt, !.userName = q.userName,
                    !.log = q.log, !.historyWrites = q.historyWrites]

\* A failed completion that is answered with the default text instead of an error.
ThrowSwallowed(r) ==
    LET q == req[r] IN
    /\ q.pc \in {"rag", "load", "complete", "userRead", "userWrite",
                 "assistantRead", "assistantWrite", "snapshot"}
    /\ req' = [req EXCEPT ![r] =
                 IF q.pc = "complete" /\ Truthy(q.userName)
                 THEN Advance([q EXCEPT !.failedAt = q.pc, !.responseContent = NoResponse])
                 ELSE Failed(q, "OpenAI API error")]
    /\ UNCHANGED <<store, now, ticks, starts, view, lastAppend, lastWriter, reads>>
    /\ Frame

\* Any await inside the try block rejects (the embeddings or the completion call, a
\* Redis command): the catch of line 212-215 rethrows, and createChat rejects.
Throw(r) ==
    LET q == req[r] IN
    /\ q.pc \in {"rag", "load", "complete", "userRead", "userWrite",
                 "assistantRead", "assistantWrite", "snapshot"}
    /\ req' = [req EXCEPT ![r] = Failed(q, "OpenAI API error")]
    /\ UNCHANGED <<store, now, ticks, starts, view, lastAppend, lastWriter, reads>>
    /\ Frame

\* cacheUserName rejects, outside the try block: line 131-133.
CacheUserNameThrows(r) ==
    LET q == req[r] IN
    /\ q.pc = "cacheUser"
    /\ req' = [req EXCEPT ![r] = Failed(q, "Redis error")]
    /\ UNCHANGED <<store, now, ticks, starts, view, lastAppend, lastWriter, reads>>
    /\ Frame

-----------------------------------------------------------------------------
(* OpenaiController *)

\* DELETE history/:userName -> clearConversationHistory: line 94-98.
ClearHistory(userName) ==
    /\ store' = Del(store, HistoryKey(userName))
    /\ lastAppend' = [lastAppend EXCEPT ![userName] = -1]
    /\ lastWriter' = [lastWriter EXCEPT ![userName] = <<0, "none">>]
    /\ reads' = [reads EXCEPT ![userName] = 0]
    /\ UNCHANGED <<now, ticks, starts, req, view>>
    /\ Frame

-----------------------------------------------------------------------------
(* The clock *)

TickDeltas == {1, HistoryTTL - 1}

Tick ==
    /\ ticks < MaxTicks
    /\ \E d \in TickDeltas :
          /\ now' = now + d
          /\ store' = Purge(store, now + d)
    /\ ticks' = ticks + 1
    /\ UNCHANGED <<starts, req, view, lastAppend, lastWriter, reads>>
    /\ Frame

-----------------------------------------------------------------------------
(* The service under concurrent requests *)

InitService ==
    /\ store = <<>>
    /\ now = 0
    /\ ticks = 0
    /\ starts = 0
    /\ req = [r \in Reqs |-> IdleReq]
    /\ view = [userName |-> Undefined, history |-> <<>>]
    /\ lastAppend = [u \in UserNames |-> -1]
    /\ lastWriter = [u \in UserNames |-> <<0, "none">>]
    /\ cacheGot = [found |-> FALSE]
    /\ written = <<>>
    /\ seqLog = [u \in UserNames |-> <<>>]
    /\ reads = [u \in UserNames |-> 0]
    /\ snapshots = <<>>

Init == InitService /\ ranked = NotRanked

Next ==
    \/ \E r \in Reqs :
          \/ Start(r)
          \/ CacheUserName(r)
          \/ CacheUserNameThrows(r)
          \/ RagSelect(r)
          \/ HistoryLoad(r)
          \/ Complete(r)
          \/ AddToHistoryRead(r)
          \/ AddToHistoryWrite(r)
          \/ CacheConversationContext(r)
          \/ Throw(r)

Spec == Init /\ [][Next]_vars

-----------------------------------------------------------------------------
(* The service over time: one request at a time, while the clock advances *)

NextTime ==
    \/ \E r \in {1} :
          \/ Start(r)
          \/ CacheUserName(r)
          \/ CacheUserNameThrows(r)
          \/ RagSelect(r)
          \/ HistoryLoad(r)
          \/ Complete(r)
          \/ AddToHistoryRead(r)
          \/ AddToHistoryWrite(r)
          \/ CacheConversationContext(r)
          \/ Throw(r)
    \/ \E userName \in UserNames : ClearHistory(userName)
    \/ Tick

SpecTime == Init /\ [][NextTime]_vars

-----------------------------------------------------------------------------
(* Sequential appends: one caller, each addToConversationHistory finished before *)
(* the next begins, no clear and no expiry in between                            *)

\* The n-th turn a caller appends: user and assistant turns alternate.
SeqRole(n) == IF n % 2 = 1 THEN "user" ELSE "assistant"
SeqContent(n) == ToString(n)

\* addToConversationHistory, read and write together: line 73-89.
SeqAppend(userName) ==
    LET n == Len(seqLog[userName]) + 1
        currentHistory == GetConversationHistory(store, userName, now)
    IN
    /\ n <= MaxSeqAppends
    /\ store' = SetJson(store, HistoryKey(userName),
                        TrimmedHistory(currentHistory, SeqRole(n), SeqContent(n), now),
                        Given(HistoryTTL), now)
    /\ seqLog' = [seqLog EXCEPT ![userName] = Append(@, Turn(SeqRole(n), SeqContent(n), now))]
    /\ lastAppend' = [lastAppend EXCEPT ![userName] = now]
    /\ reads' = [reads EXCEPT ![userName] = 0]
    /\ UNCHANGED <<now, ticks, starts, req, view, lastWriter, cacheGot, written, ranked, snapshots>>

\* A read that also removes what it read.
GetHistoryAndDel(userName) ==
    /\ view' = [userName |-> userName, history |-> GetConversationHistory(store, userName, now)]
    /\ store' = Del(store, HistoryKey(userName))
    /\ reads' = [reads EXCEPT ![userName] = Min(@ + 1, 2)]
    /\ UNCHANGED <<now, ticks, starts, req, lastAppend, lastWriter, cacheGot, written, seqLog,
                 ranked, snapshots>>

\* GET history/:userName -> getConversationHistory: part_000 line 36-39.
GetHistory(userName) ==
    /\ view' = [userName |-> userName, history |-> GetConversationHistory(store, userName, now)]
    /\ reads' = [reads EXCEPT ![userName] = Min(@ + 1, 2)]
    /\ UNCHANGED <<store, now, ticks, starts, req, lastAppend, lastWriter, cacheGot, written, seqLog,
                 ranked, snapshots>>

NextSeq == \E userName \in UserNames : SeqAppend(userName) \/ GetHistory(userName)

SpecSeq == Init /\ [][NextSeq]_vars

-----------------------------------------------------------------------------
(* The history of a user under the controller: up to MaxUserChats chats of the   *)
(* user, one at a time, with GET and DELETE history/:userName and the clock in   *)
(* between                                                                       *)

\* A chat of a user arrives: a prompt and a userName, nothing else.
StartUserChat(r) ==
    /\ starts < MaxUserChats
    /\ \E userName \in UserNames :
          StartWith(r, PromptOf(r), userName, Undefined, FALSE, Omitted)

NextHist ==
    \/ \E r \in {1} :
          \/ StartUserChat(r)
          \/ CacheUserName(r)
          \/ CacheUserNameThrows(r)
          \/ HistoryLoad(r)
          \/ Complete(r)
          \/ AddToHistoryRead(r)
          \/ AddToHistoryWrite(r)
          \/ Throw(r)
    \/ \E userName \in UserNames :
          \/ ClearHistory(userName)
          \/ GetHistory(userName)
    \/ Tick

SpecHist == Init /\ [][NextHist]_vars

-----------------------------------------------------------------------------
(* The retrieval ranker on its own: selectTopKDocuments over the embeddings the  *)
(* endpoint returns for [query] ++ documents                                     *)

\* The documents of a call: up to MaxDocs of them, all different.
RankDocuments == { [i \in 1 .. n |-> <<"doc", i>>] : n \in 0 .. MaxDocs }

\* Embedding vectors: the axes, a diagonal, two opposites and the zero vector.
RankVectors == { <<1, 0>>, <<0, 1>>, <<1, 1>>, <<-1, 0>>, <<1, -1>>, <<0, 0>> }

\* The DTO admits 1..20; the service is also called with 0.
RankTopKs == 0 .. MaxTopK

\* selectTopKDocuments is called: line 218-224.
InitRank ==
    /\ InitService
    /\ \E documents \in RankDocuments, topK \in RankTopKs :
          \E embeddings \in [1 .. Len(documents) + 1 -> RankVectors] :
             ranked = [state |-> "called", documents |-> documents, topK |-> topK,
                       embeddings |-> embeddings]

\* selectTopKDocuments returns: line 225-236.
SelectTopK ==
    /\ ranked.state = "called"
    /\ ranked' = [state |-> "returned", documents |-> ranked.documents,
                  topK |-> ranked.topK, embeddings |-> ranked.embeddings,
                  result |-> SelectTopKDocuments(ranked.documents, ranked.topK,
                                                 ranked.embeddings)]
    /\ UNCHANGED <<store, now, ticks, starts, req, view, lastAppend, lastWriter, cacheGot,
                 written, seqLog, reads, snapshots>>

\* getEmbeddings rejects, and selectTopKDocuments with it: line 226.
SelectTopKThrows ==
    /\ ranked.state = "called"
    /\ ranked' = [ranked EXCEPT !.state = "rejected"]
    /\ UNCHANGED <<store, now, ticks, starts, req, view, lastAppend, lastWriter, cacheGot,
                 written, seqLog, reads, snapshots>>

NextRank == SelectTopK \/ SelectTopKThrows

SpecRank == InitRank /\ [][NextRank]_vars

-----------------------------------------------------------------------------
(* Chats of a user one after the other, with any prompt the DTO admits: IsString *)
(* admits the empty string                                                       *)

ChatPrompts == {"", "Hi"}

\* A chat of a user arrives: any prompt, with or without RAG documents.
StartAnyPrompt(r) ==
    \E prompt \in ChatPrompts, userName \in UserNames, useRag \in BOOLEAN :
       StartWith(r, prompt, userName, Undefined, useRag, Omitted)

NextPrompts ==
    \E r \in {1} :
        \/ StartAnyPrompt(r)
        \/ CacheUserName(r)
        \/ CacheUserNameThrows(r)
        \/ RagSelect(r)
        \/ HistoryLoad(r)
        \/ Complete(r)
        \/ AddToHistoryRead(r)
        \/ AddToHistoryWrite(r)
        \/ Throw(r)

SpecPrompts == Init /\ [][NextPrompts]_vars

-----------------------------------------------------------------------------
(* The snapshot and profile caches on their own: cacheConversationContext and    *)
(* cacheUserName called with names and timestamps that may hold a ':'            *)

KeyUserNames == {"Ann", "Ann:T"}
KeyTimestamps == {"1", "T:1"}
KeyPrompts == {"Hi", "Yo"}

\* cacheConversationContext(userName, timestamp, prompt, response): line 35-51.
CacheContextCall(userName, timestamp, prompt, response) ==
    LET contextData == [timestamp |-> timestamp, prompt |-> prompt, response |-> response,
                        createdAt |-> ToISOString(now)]
    IN
    /\ store' = SetJson(store, ConversationKey(userName, timestamp), contextData,
                        Given(SnapshotTTL), now)
    /\ snapshots' = Put(snapshots, <<userName, timestamp>>, contextData)
    /\ UNCHANGED <<now, ticks, starts, req, view, lastAppend, lastWriter, cacheGot, written,
                 seqLog, reads, ranked>>

\* cacheUserName(userName): line 18-22.
CacheUserNameCall(userName) ==
    /\ store' = SetJson(store, ProfileKey(userName),
                        [name |-> userName, cachedAt |-> ToISOString(now)], Given(ProfileTTL), now)
    /\ UNCHANGED <<now, ticks, starts, req, view, lastAppend, lastWriter, cacheGot, written,
                 seqLog, reads, ranked, snapshots>>

NextKeys ==
    \E userName \in KeyUserNames :
        \/ \E timestamp \in KeyTimestamps, prompt \in KeyPrompts :
              CacheContextCall(userName, timestamp, prompt, "Hello")
        \/ CacheUserNameCall(userName)

SpecKeys == Init /\ [][NextKeys]_vars

-----------------------------------------------------------------------------
(* RedisService on its own: set, get and del of string values, under the clock *)

CacheKeys == {"k1", "k2"}
CacheValues == {"v1", "v2"}
CacheTtls == {Omitted, Given(0), Given(1), Given(2)}

CacheSet(key, value, ttl) ==
    /\ store' = Set(store, key, value, ttl, now)
    /\ written' = Put(written, key, [val |-> value, at |-> now, ttl |-> ttl])
    /\ UNCHANGED <<now, ticks, starts, req, view, lastAppend, lastWriter, cacheGot, seqLog,
                 reads, ranked, snapshots>>

CacheGet(key) ==
    /\ cacheGot' = Get(store, key, now)
    /\ UNCHANGED <<store, now, ticks, starts, req, view, lastAppend, lastWriter, written, seqLog,
                 reads, ranked, snapshots>>

CacheDel(key) ==
    /\ store' = Del(store, key)
    /\ written' = Del(written, key)
    /\ UNCHANGED <<now, ticks, starts, req, view, lastAppend, lastWriter, cacheGot, seqLog,
                 reads, ranked, snapshots>>

CacheTick ==
    /\ now < MaxCacheNow
    /\ now' = now + 1
    /\ store' = Purge(store, now + 1)
    /\ UNCHANGED <<ticks, starts, req, view, lastAppend, lastWriter, cacheGot, written, seqLog,
                 reads, ranked, snapshots>>

NextCache ==
    \/ \E key \in CacheKeys :
          \/ \E value \in CacheValues, ttl \in CacheTtls : CacheSet(key, value, ttl)
          \/ CacheGet(key)
          \/ CacheDel(key)
    \/ CacheTick

SpecCache == Init /\ [][NextCache]_vars

-----------------------------------------------------------------------------
(* Properties *)

History(userName) == GetConversationHistory(store, userName, now)

\* A history as the claims write it: the turns' roles and contents.
RolesAndContents(h) == [i \in 1 .. Len(h) |-> [role |-> h[i].role, content |-> h[i].content]]

\* Both requests have finished their user-turn append, from the same prior history,
\* and w's write is the last one to the key.
BothAppended(l, w) ==
    /\ l # w
    /\ Truthy(req[w].userName)
    /\ req[l].userName = req[w].userName
    /\ req[l].pc \in {"assistantRead", "assistantWrite"}
    /\ req[w].pc \in {"assistantRead", "assistantWrite"}
    /\ req[l].priorUser = req[w].priorUser
    /\ lastWriter[req[w].userName] = <<w, "user">>

\* C1: when two appends for one user have both read the same prior history and both
\* have written, the stored history is the later writer's prior-plus-one sequence: the
\* prior turns followed by the later writer's turn only; the other append's turn is lost.
C1_LaterWriteWins ==
    \A l \in Reqs, w \in Reqs :
        BothAppended(l, w) =>
            LET h == History(req[w].userName)
                prior == req[w].priorUser
            IN  /\ Len(h) = Len(prior) + 1
                /\ SubSeq(h, 1, Len(prior)) = prior
                /\ h[Len(h)].role = "user"
                /\ h[Len(h)].content = req[w].prompt

\* C1 witness: both appends are complete and the loser's turn is not in the history.
C1_LostUpdate ==
    \E l \in Reqs, w \in Reqs :
        /\ BothAppended(l, w)
        /\ req[l].historyWrites = 1
        /\ req[w].historyWrites = 1
        /\ \A i \in 1 .. Len(History(req[w].userName)) :
              History(req[w].userName)[i].content # req[l].prompt

\* C2: after N >= 51 sequential appends for one user, getHistory returns exactly the
\* last 50 appended turns, in the order they were appended.
C2_LastFifty ==
    \A u \in UserNames :
        LET n == Len(seqLog[u]) IN
        n >= HistoryLimit + 1 =>
            /\ Len(History(u)) = HistoryLimit
            /\ \A i \in 1 .. HistoryLimit : History(u)[i] = seqLog[u][n - HistoryLimit + i]

\* C2 witness: the controller has returned a 50-turn history after more than 51
\* appends, and its first turn is the third turn appended or a later one.
C2_Trimmed ==
    /\ view.userName \in UserNames
    /\ Len(seqLog[view.userName]) > HistoryLimit + 1
    /\ view.history = History(view.userName)
    /\ Len(view.history) = HistoryLimit
    /\ view.history[1] = seqLog[view.userName][Len(seqLog[view.userName]) - HistoryLimit + 1]
    /\ view.history[1] # seqLog[view.userName][1]

\* C3: a request whose embeddings call or completion call failed has failed, and it
\* has written no turn to the conversation history.
C3_FailedCallWritesNoTurn ==
    \A r \in Reqs :
        req[r].failedAt \in {"rag", "complete"} =>
            /\ req[r].pc = "failed"
            /\ req[r].historyWrites = 0

\* C3 witness: a request of a user failed at the completion call, another one at the
\* embeddings call.
C3_CallFailed ==
    \E r \in Reqs, o \in Reqs :
        /\ req[r].pc = "failed" /\ req[r].failedAt = "complete" /\ Truthy(req[r].userName)
        /\ req[o].pc = "failed" /\ req[o].failedAt = "rag"

\* C4, as claimed: a failure of the cache read that loads the history does not fail
\* the request.
C4_ReadFailureDegrades ==
    \A r \in Reqs : ~(req[r].pc = "failed" /\ req[r].failedAt = "load")

\* C5, as claimed: a cache write that fails after the completion call has succeeded
\* does not fail the request; the caller still gets the completion text.
C5_WriteFailureStillReturns ==
    \A r \in Reqs :
        ~(req[r].pc = "failed" /\ req[r].failedAt \in {"userWrite", "assistantWrite", "snapshot"})

\* C6: with a user identifier and RAG requested with at least one document, the
\* messages sent to the completion call hold no system message: they are the
\* history-derived messages followed by the prompt.
C6_HistoryReplacesRag ==
    \A r \in Reqs :
        LET q == req[r] IN
        (Truthy(q.userName) /\ q.useRag /\ Len(q.documents) > 0 /\ q.sent # <<>>) =>
            /\ \A i \in 1 .. Len(q.sent) : q.sent[i].role # "system"
            /\ Len(q.sent) = Len(FilterMap(q.loaded)) + 1
            /\ SubSeq(q.sent, 1, Len(q.sent) - 1) = FilterMap(q.loaded)
            /\ q.sent[Len(q.sent)] = [role |-> "user", content |-> q.prompt]

\* C6 witness: such a request was sent with a non-empty history, after RAG selection ran.
C6_RagDiscarded ==
    \E r \in Reqs :
        /\ Truthy(req[r].userName) /\ req[r].useRag /\ Len(req[r].documents) > 0
        /\ Len(req[r].sent) > 1
        /\ \E i \in 1 .. Len(req[r].log) : req[r].log[i] = "rag"

\* A request of a user has returned, it loaded an empty history, no other request of
\* the user was in flight with it, and nothing has written the history since.
EndToEndCase(r) ==
    /\ req[r].pc = "done"
    /\ Truthy(req[r].userName)
    /\ req[r].loaded = <<>>
    /\ req[r].alone
    /\ lastWriter[req[r].userName] = <<r, "assistant">>

\* C7, as claimed: such a request sent exactly [{user, p}], and the history is
\* exactly [{user, p}, {assistant, r}] for the reply text r.
C7_EndToEnd ==
    \A r \in Reqs :
        EndToEndCase(r) =>
            /\ req[r].sent = <<[role |-> "user", content |-> req[r].prompt]>>
            /\ RolesAndContents(History(req[r].userName)) =
                  <<[role |-> "user", content |-> req[r].prompt],
                    [role |-> "assistant", content |-> req[r].reply]>>

\* C7, amended: the same, with the assistant turn holding the reply text when it is
\* not empty and 'No response' when it is.
C7_EndToEndNoResponse ==
    \A r \in Reqs :
        EndToEndCase(r) =>
            /\ req[r].sent = <<[role |-> "user", content |-> req[r].prompt]>>
            /\ RolesAndContents(History(req[r].userName)) =
                  <<[role |-> "user", content |-> req[r].prompt],
                    [role |-> "assistant",
                     content |-> IF req[r].reply # "" THEN req[r].reply ELSE NoResponse]>>

\* C7 witness: the case, with a reply that is not empty.
C7_Replied ==
    \E r \in Reqs : EndToEndCase(r) /\ req[r].reply = "Hello"

Rank(step) ==
    CASE step = "cacheUser" -> 0
      [] step = "rag" -> 1
      [] step = "load" -> 2
      [] step = "complete" -> 3
      [] step = "userRead" -> 4
      [] step = "userWrite" -> 5
      [] step = "assistantRead" -> 6
      [] step = "assistantWrite" -> 7
      [] step = "snapshot" -> 8

\* C8: the steps a request has run are in the order RagSelect, HistoryLoad,
\* ExternalComplete, HistoryPersist (user turn, then assistant turn), SnapshotPersist,
\* each finished before the next starts, and every write to the history or snapshot
\* key comes after the completion call.
C8_StepOrder ==
    \A r \in Reqs :
        LET log == req[r].log IN
        /\ \A i \in 1 .. Len(log), j \in 1 .. Len(log) :
              i < j => Rank(log[i]) < Rank(log[j])
        /\ \A i \in 1 .. Len(log) :
              log[i] \in {"userWrite", "assistantWrite", "snapshot"} =>
                  \E k \in 1 .. (i - 1) : log[k] = "complete"

\* C8 witness: a request has run every step.
C8_AllSteps ==
    \E r \in Reqs :
        req[r].log = <<"cacheUser", "rag", "load", "complete", "userRead", "userWrite",
                       "assistantRead", "assistantWrite", "snapshot">>

\* What C9 claims of a key whose last set wrote w: with a ttl given, get returns the
\* value until ttl seconds have passed since the set and nothing after; with the ttl
\* omitted, get returns the value.
TtlHonoured(key) ==
    LET w == written[key]
        got == Get(store, key, now)
    IN  IF w.ttl.given /\ now - w.at >= w.ttl.value
        THEN ~got.found
        ELSE got = [found |-> TRUE, val |-> w.val]

\* C9, as claimed: every set is honoured, whatever ttl was given.
C9_TtlExpiry == \A key \in DOMAIN written : TtlHonoured(key)

\* C10: getHistory(user) is not empty exactly when an append for the user was written
\* less than 30 days ago with no clear after it; and the history key expires exactly
\* 30 days after that append's write, so nothing else, a read included, extends it.
C10_FreshTtl ==
    \A u \in UserNames :
        /\ (History(u) # <<>>) <=> (lastAppend[u] # -1 /\ now - lastAppend[u] < HistoryTTL)
        /\ HistoryKey(u) \in DOMAIN store =>
              store[HistoryKey(u)].exp = lastAppend[u] + HistoryTTL

\* C10 witness: a turn stamped 30 days ago or earlier is still returned, because a
\* later append rewrote the history with a fresh expiry.
C10_Extended ==
    \E u \in UserNames :
        /\ Len(History(u)) >= 2
        /\ History(u)[1].timestamp[2] + HistoryTTL <= now

\* getHistory(u) has returned, and the last append or clear for u before it was a clear
\* (or there has been none).
ReadAfterClear(u) == view.userName = u /\ reads[u] >= 1 /\ lastAppend[u] = -1

\* C11: clear(user) followed by getHistory(user), with no append for the user in
\* between, returns an empty sequence, whatever the history held and whether or not
\* one existed.
C11_ClearThenEmpty ==
    \A u \in UserNames : ReadAfterClear(u) => view.history = <<>>

\* C11 witness: a chat of the user wrote both its turns, the history was cleared before
\* any time passed, and getHistory then returned the empty sequence.
C11_ClearedTwoTurns ==
    \E u \in UserNames :
        /\ ReadAfterClear(u)
        /\ req[1].userName = u /\ req[1].historyWrites = 2
        /\ ticks = 0
        /\ view.history = <<>>

\* The step is a getHistory(u) that returns: only getHistory counts reads and sets view.
GetHistoryStep(u) == reads'[u] > reads[u] \/ (view' # view /\ view'.userName = u)

\* C15, as claimed: a getHistory that follows another one for the same user, with no
\* append or clear in between, returns the same sequence; and a getHistory leaves the
\* cache as it was.
C15_ReadTwice ==
    [][\A u \in UserNames :
          GetHistoryStep(u) =>
              /\ store' = store
              /\ (reads[u] >= 1 /\ view.userName = u) => view'.history = view.history]_vars

\* C15, amended: the same, when the history has not expired between the two calls.
C15_ReadTwiceUnexpired ==
    [][\A u \in UserNames :
          GetHistoryStep(u) =>
              /\ store' = store
              /\ (/\ reads[u] >= 1 /\ view.userName = u
                  /\ (view.history = <<>> \/ Live(store, HistoryKey(u), now)))
                     => view'.history = view.history]_vars

\* C15 witness: two getHistory calls in a row, time passing between appends and reads,
\* returned a history that is not empty.
C15_ReadAgain ==
    \E u \in UserNames :
        /\ view.userName = u /\ reads[u] = 2
        /\ ticks >= 1
        /\ view.history # <<>>
        /\ view.history = History(u)

\* C17, as claimed: once clear(user) has completed, no turn the history held before the
\* clear comes back. An append that writes while the last append or clear before it
\* was a clear therefore leaves a history of one turn, its own: every other turn it
\* writes is a turn it read before the clear.
C17_ClearedStaysCleared ==
    [][\A r \in Reqs :
          (/\ req[r].pc \in {"userWrite", "assistantWrite"}
           /\ req'[r].historyWrites = req[r].historyWrites + 1
           /\ lastAppend[req[r].userName] = -1)
              => Len(GetConversationHistory(store', req[r].userName, now')) = 1]_vars

\* The similarity score of the i-th document of the last selectTopKDocuments call.
RankScore(i) == CosineSimilarity(ranked.embeddings[1], ranked.embeddings[i + 1])

\* The input index of a returned document (the documents of a call are all different).
RankIndex(doc) == CHOOSE i \in 1 .. Len(ranked.documents) : ranked.documents[i] = doc

\* Document i scores strictly higher than document j: the scores are sgn * sqrt(num / den).
RankHigher(i, j) ==
    RankScore(i).sgn * RankScore(i).num * RankScore(j).den
        > RankScore(j).sgn * RankScore(j).num * RankScore(i).den
RankEqual(i, j) == ~RankHigher(i, j) /\ ~RankHigher(j, i)

\* C12: selectTopK returns exactly min(k, |documents|) documents; with k greater than
\* the number of documents it returns all of them, each exactly once.
C12_TopKLength ==
    ranked.state = "returned" =>
        LET n == Len(ranked.documents)
            result == ranked.result
        IN  /\ Len(result) = Min(ranked.topK, n)
            /\ ranked.topK > n =>
                  \A i \in 1 .. n :
                      Cardinality({p \in 1 .. Len(result) : result[p] = ranked.documents[i]}) = 1

\* C12 witness: a call with three documents and k = 4 returned three documents.
C12_MoreThanAll ==
    /\ ranked.state = "returned"
    /\ Len(ranked.documents) = 3 /\ ranked.topK = 4
    /\ Len(ranked.result) = 3

\* C13: the returned documents are documents of the call, each at most once; they are
\* in non-increasing order of score; documents of equal score are in input order; and
\* a document left out scores no higher than any returned one, and comes later in the
\* input than a returned one of equal score.
C13_RankedOrder ==
    ranked.state = "returned" =>
        LET n == Len(ranked.documents)
            result == ranked.result
            returned == {RankIndex(result[p]) : p \in 1 .. Len(result)}
        IN  /\ \A p \in 1 .. Len(result) :
                  \E i \in 1 .. n : result[p] = ranked.documents[i]
            /\ \A p \in 1 .. Len(result), q \in 1 .. Len(result) :
                  p < q =>
                      /\ result[p] # result[q]
                      /\ ~RankHigher(RankIndex(result[q]), RankIndex(result[p]))
                      /\ RankEqual(RankIndex(result[p]), RankIndex(result[q]))
                            => RankIndex(result[p]) < RankIndex(result[q])
            /\ \A i \in (1 .. n) \ returned, j \in returned :
                  /\ ~RankHigher(i, j)
                  /\ RankEqual(i, j) => j < i

\* C13 witness: query [1,0] and documents embedded as [1,0], [0,1], [1,1] with k = 2
\* return the first and the third document, in that order.
C13_FirstAndThird ==
    /\ ranked.state = "returned"
    /\ ranked.embeddings = <<<<1, 0>>, <<1, 0>>, <<0, 1>>, <<1, 1>>>>
    /\ ranked.topK = 2
    /\ ranked.result = <<ranked.documents[1], ranked.documents[3]>>

\* getCachedConversation(userName, timestamp): line 56-59.
GetCachedConversation(st, userName, timestamp, t) ==
    GetJson(st, ConversationKey(userName, timestamp), t)

\* C20, as claimed: two distinct (userName, timestamp) pairs whose snapshots were
\* cached never have the same snapshot key, no snapshot key is a history key or a
\* profile key, and so each pair's snapshot is the one last cached for that pair,
\* whatever was cached for other pairs.
C20_SnapshotKeysInjective ==
    /\ \A p \in DOMAIN snapshots, q \in DOMAIN snapshots :
          p # q => ConversationKey(p[1], p[2]) # ConversationKey(q[1], q[2])
    /\ \A p \in DOMAIN snapshots, u \in KeyUserNames :
          /\ ConversationKey(p[1], p[2]) # HistoryKey(u)
          /\ ConversationKey(p[1], p[2]) # ProfileKey(u)
    /\ \A p \in DOMAIN snapshots :
          GetCachedConversation(store, p[1], p[2], now) = [found |-> TRUE, val |-> snapshots[p]]

\* The snapshot entries of the cache, for any userName and timestamp a request can carry.
SnapshotEntries(st) ==
    LET keys == {ConversationKey(u, t) : u \in UserNames \cup {Undefined},
                                        t \in Timestamps \cup {Undefined}}
    IN  [k \in keys \cap DOMAIN st |-> st[k]]

\* C14: a step of a createChat request without a user identifier changes nothing in the
\* cache (no profile, history or snapshot key), and a step of a request without a
\* timestamp changes no snapshot key: a snapshot is cached only by a request that has both.
C14_ConditionalPersistence ==
    [][\A r \in Reqs :
          (InFlight(req[r]) /\ req'[r] # req[r]) =>
              /\ ~Truthy(req[r].userName) => store' = store
              /\ ~Truthy(req[r].timestamp) => SnapshotEntries(store') = SnapshotEntries(store)]_vars

\* C14 witness: a request with a timestamp and no user and a request with a user and no
\* timestamp have both returned, and the cache holds the profile and the two-turn
\* history of the user and nothing else.
C14_NoSnapshot ==
    \E r \in Reqs, o \in Reqs :
        /\ req[r].pc = "done" /\ Truthy(req[r].userName) /\ ~Truthy(req[r].timestamp)
        /\ req[o].pc = "done" /\ ~Truthy(req[o].userName) /\ Truthy(req[o].timestamp)
        /\ DOMAIN store = {ProfileKey(req[r].userName), HistoryKey(req[r].userName)}
        /\ Len(History(req[r].userName)) = 2

\* C18, as claimed: every assistant turn of a history that is not its first element
\* comes directly after a user turn; and the assistant turn a request wrote last comes
\* directly after the user turn holding that request's prompt.
C18_PairsAdjacent ==
    \A u \in UserNames :
        LET h == History(u) IN
        /\ \A i \in 2 .. Len(h) :
              h[i].role = "assistant" => h[i - 1].role = "user"
        /\ \A r \in Reqs :
              (req[r].userName = u /\ lastWriter[u] = <<r, "assistant">> /\ Len(h) >= 2) =>
                  /\ h[Len(h) - 1].role = "user"
                  /\ h[Len(h) - 1].content = req[r].prompt

\* C19, as claimed: a createChat request that has failed has written no turn, and one
\* that has written its user turn goes on to write its assistant turn.
C19_FailureLeavesHistory ==
    \A r \in Reqs : req[r].pc = "failed" => req[r].historyWrites = 0

\* C16, as claimed: with a user identifier, the messages sent to the completion call
\* are the stored history turns the request loaded, every one of them, in order and
\* reduced to {role, content}, followed by the prompt as a user message.
C16_SentIsHistory ==
    \A r \in Reqs :
        (Truthy(req[r].userName) /\ req[r].sent # <<>>) =>
            req[r].sent = Append(RolesAndContents(req[r].loaded),
                                 [role |-> "user", content |-> req[r].prompt])

HasRoleAndContent(msg) == msg.role # "" /\ msg.content # ""

\* C16, amended: the same, of the stored turns that have a role and a content that
\* are not empty.
C16_SentIsFilteredHistory ==
    \A r \in Reqs :
        (Truthy(req[r].userName) /\ req[r].sent # <<>>) =>
            req[r].sent = Append(RolesAndContents(SelectSeq(req[r].loaded, HasRoleAndContent)),
                                 [role |-> "user", content |-> req[r].prompt])

\* C16 witness: a request loaded a history of a user turn and an assistant turn, both
\* with content, and sent them followed by its prompt.
C16_SentTwoTurns ==
    \E r \in Reqs :
        /\ Truthy(req[r].userName)
        /\ Len(req[r].loaded) = 2
        /\ Len(req[r].sent) = 3
        /\ req[r].sent[1] = [role |-> "user", content |-> "Hi"]
        /\ req[r].sent[2].role = "assistant"

====
